---- MODULE Spec2Model ----
(***************************************************************************)
(* The #[rpc] attribute macro of easy-jsonrpc (proc_macros/src/lib.rs):    *)
(* validation of a trait definition, generation of the Handler             *)
(* implementation (impl_server) and of the client helpers (impl_client),   *)
(* and the behaviour of the code the two quote! templates expand to.       *)
(*                                                                         *)
(* Identifiers and string literals are sequences of one-character strings, *)
(* so that starts_with, format! and to_snake_case are computed.            *)
(***************************************************************************)
EXTENDS Integers, Sequences, FiniteSets, TLC

VARIABLES trait_def, output, last

vars == <<trait_def, output, last>>

\* ------------------------------------------------------------------ bounds

\* Largest number of items in the trait.
MaxMembers == 2
\* Largest number of arguments of a method after its first one.
MaxParams == 2
\* Largest number of fn arguments in the whole trait.
MaxTotalArgs == 3

\* ------------------------------------------------------------------ strings

Lower == <<"a","b","c","d","e","f","g","h","i","j","k","l","m",
           "n","o","p","q","r","s","t","u","v","w","x","y","z">>
Upper == <<"A","B","C","D","E","F","G","H","I","J","K","L","M",
           "N","O","P","Q","R","S","T","U","V","W","X","Y","Z">>
Digits == <<"0","1","2","3","4","5","6","7","8","9">>

is_uppercase(c) == \E i \in 1..Len(Upper) : Upper[i] = c
is_lowercase(c) == \E i \in 1..Len(Lower) : Lower[i] = c
to_lowercase(c) ==
  IF is_uppercase(c) THEN Lower[CHOOSE i \in 1..Len(Upper) : Upper[i] = c] ELSE c

starts_with(s, prefix) ==
  Len(s) >= Len(prefix) /\ SubSeq(s, 1, Len(prefix)) = prefix

RECURSIVE usize_to_string(_)
usize_to_string(n) ==
  IF n < 10 THEN <<Digits[n + 1]>>
  ELSE usize_to_string(n \div 10) \o <<Digits[(n % 10) + 1]>>

\* format!("arg{}", i)
format_arg(i) == <<"a","r","g">> \o usize_to_string(i)

\* format!("\"{}\"", ident)
format_quoted(ident) == <<"\"">> \o ident \o <<"\"">>

\* heck's to_snake_case on an identifier: a word starts at an upper-case
\* letter that follows a lower-case one, or that is followed by a lower-case
\* one inside a run of upper-case letters; words are lower-cased and joined
\* by "_".
RECURSIVE snake_from(_, _)
snake_from(s, i) ==
  IF i > Len(s) THEN <<>>
  ELSE LET c == s[i]
           boundary ==
             /\ i > 1
             /\ is_uppercase(c)
             /\ \/ is_lowercase(s[i - 1])
                \/ /\ is_uppercase(s[i - 1])
                   /\ i < Len(s)
                   /\ is_lowercase(s[i + 1])
       IN (IF boundary THEN <<"_">> ELSE <<>>) \o <<to_lowercase(c)>>
            \o snake_from(s, i + 1)

to_snake_case(s) == snake_from(s, 1)

\* ------------------------------------------------------------------ results

Ok(v) == [ok |-> TRUE, val |-> v]
Err(e) == [ok |-> FALSE, err |-> e]

\* ------------------------------------------------------------------ rejections

\* Rejection::create
Rejection_create(span, reason) == [span |-> span, reason |-> reason]

\* impl From<Rejection> for Rejections
Rejections_from(first) == [first |-> first, rest |-> <<>>]

\* The rejections of a Rejections value, first to last.
Rejections_list(rej) == <<rej.first>> \o rej.rest

\* Rejection::raise: the compile_error!() of one rejection.
Rejection_raise(rejection) ==
  [span |-> rejection.span,
   description |->
     CASE rejection.reason = "FirstArgumentNotSelfRef" ->
            "First argument to jsonrpc method must be &self."
       [] rejection.reason = "PatternMatchedArg" ->
            "Pattern matched arguments are not supported in jsonrpc methods."
       [] rejection.reason = "ConcreteTypesRequired" ->
            "Arguments and return values must have concrete types."
       [] rejection.reason = "TraitNotStrictlyMethods" ->
            "Macro 'jsonrpc_server' expects trait definition containing methods only."
       [] rejection.reason = "ReservedMethodPrefix" ->
            "The prefix 'rpc.' is reserved https://www.jsonrpc.org/specification#request_object"
       [] rejection.reason = "ReferenceArg" ->
            "Reference arguments not supported in jsonrpc macro."
       [] rejection.reason = "MutableArg" ->
            "Mutable arguments not supported in jsonrpc macro."]

\* Rejections::raise: one compile_error!() per rejection, first to last.
Rejections_raise(rej) ==
  <<Rejection_raise(rej.first)>>
    \o [i \in 1..Len(rej.rest) |-> Rejection_raise(rej.rest[i])]

RECURSIVE errs_of(_)
errs_of(results) ==
  IF results = <<>> THEN <<>>
  ELSE (IF Head(results).ok THEN <<>> ELSE Rejections_list(Head(results).err))
         \o errs_of(Tail(results))

RECURSIVE oks_of(_)
oks_of(results) ==
  IF results = <<>> THEN <<>>
  ELSE (IF Head(results).ok THEN <<Head(results).val>> ELSE <<>>)
         \o oks_of(Tail(results))

\* partition with the errors thrown away: the Ok values of a partly invalid
\* input are returned.
partition_lenient(iter) == Ok(oks_of(iter))

\* partition: if all Ok, the successful values, otherwise all the rejections.
partition(iter) ==
  LET errs == errs_of(iter)
  IN IF errs # <<>>
       THEN Err([first |-> Head(errs), rest |-> Tail(errs)])
       ELSE Ok(oks_of(iter))

RECURSIVE collect_from(_)
collect_from(results) ==
  IF results = <<>> THEN Ok(<<>>)
  ELSE IF ~Head(results).ok THEN Head(results)
  ELSE LET more == collect_from(Tail(results))
       IN IF more.ok THEN Ok(<<Head(results).val>> \o more.val) ELSE more

\* collect that keeps the Ok values and skips the Err ones.
collect_skipping(results) == Ok(oks_of(results))

\* Iterator::collect::<Result<Vec<_>, _>>(): stops at the first Err.
collect_result(results) == collect_from(results)

\* ------------------------------------------------------------------ syntax tree

\* A span: which part of which item or argument it covers.  pos is
\* <<item, 0>> for an item and <<item, j>> for its j-th fn argument.
Span(part, pos) == [part |-> part, pos |-> pos]

TypePath(ident) == [ty |-> "Path", ident |-> ident]
TypeReference(elem) == [ty |-> "Reference", elem |-> elem]

T_usize == TypePath(<<"u","s","i","z","e">>)
T_str == TypePath(<<"s","t","r">>)
T_Map == TypePath(<<"M","a","p">>)

\* The declared types of well-formed arguments in the traits examined.
ArgTypes == {T_usize, TypeReference(T_str), TypeReference(T_Map)}

SelfRef(mutability, pos) ==
  [arg |-> "SelfRef", mutability |-> mutability, pos |-> pos]
SelfValue(pos) == [arg |-> "SelfValue", pos |-> pos]
PatIdent(by_ref, mutability, subpat, ident) ==
  [pat |-> "Ident", by_ref |-> by_ref, mutability |-> mutability,
   subpat |-> subpat, ident |-> ident]
PatTuple == [pat |-> "Tuple"]
Captured(pat, ty, pos) == [arg |-> "Captured", pat |-> pat, ty |-> ty, pos |-> pos]
Ignored(ty, pos) == [arg |-> "Ignored", ty |-> ty, pos |-> pos]

\* the trait's name, as in the macro's documentation
TraitName == <<"M","y","A","p","i">>

\* The name of the method at item m and of the argument at position j.  A
\* method name is examined with and without the reserved prefix: the check
\* of line 184 is part of trait_methods, though an identifier that the
\* compiler has parsed holds no ".".
MethodLetters == <<"f","g","h","i","j">>
ParamLetters == <<"s","a","b","c","d","e">>
RpcDot == <<"r","p","c",".">>
MethodIdents(m) == {<<MethodLetters[m]>>, RpcDot \o <<MethodLetters[m]>>}
ParamIdent(j) == <<ParamLetters[j]>>

\* The first argument of a method.
FirstArgs(m) ==
  {SelfRef("None", <<m, 1>>), SelfRef("Some", <<m, 1>>), SelfValue(<<m, 1>>),
   Captured(PatIdent("None", "None", "None", ParamIdent(1)), T_usize, <<m, 1>>)}

\* An argument after the first, at position j.
RestArgs(m, j) ==
  {Captured(PatIdent("None", "None", "None", ParamIdent(j)), ty, <<m, j>>) :
     ty \in ArgTypes}
  \cup {Captured(PatIdent(r, u, "None", ParamIdent(j)), T_usize, <<m, j>>) :
          r \in {"None", "Some"}, u \in {"None", "Some"}}
  \cup {Captured(PatIdent("None", "None", "Some", ParamIdent(j)), T_usize, <<m, j>>),
        Captured(PatTuple, T_usize, <<m, j>>),
        Ignored(T_usize, <<m, j>>)}

\* The argument lists a, a2, ... from position j on, at most n long.
RECURSIVE RestInputs(_, _, _)
RestInputs(m, j, n) ==
  IF n = 0 THEN {<<>>}
  ELSE {<<>>} \cup {<<a>> \o rest : a \in RestArgs(m, j), rest \in RestInputs(m, j + 1, n - 1)}

\* The fn argument lists of the method at item m, at most budget long.
MethodInputs(m, budget) ==
  {<<>>}
  \cup IF budget = 0 THEN {}
       ELSE LET n == IF budget - 1 < MaxParams THEN budget - 1 ELSE MaxParams
            IN {<<a>> \o rest : a \in FirstArgs(m), rest \in RestInputs(m, 2, n)}

\* The declared return type of the method at item m: none on the first
\* item, a map on the second, an integer further on.
ReturnTypeAt(m) ==
  CASE m = 1 -> [output |-> "Default"]
    [] m = 2 -> [output |-> "Type", ty |-> T_Map]
    [] OTHER -> [output |-> "Type", ty |-> T_usize]

Method(m, ident, inputs) ==
  [item |-> "Method", pos |-> <<m, 0>>,
   sig |-> [ident |-> ident, pos |-> <<m, 0>>,
            decl |-> [inputs |-> inputs, output |-> ReturnTypeAt(m), pos |-> <<m, 0>>]]]
NotMethod(m) == [item |-> "Const", pos |-> <<m, 0>>]

Items(m, budget) ==
  {NotMethod(m)}
  \cup {Method(m, id, ins) : id \in MethodIdents(m), ins \in MethodInputs(m, budget)}

item_args(it) == IF it.item = "Method" THEN Len(it.sig.decl.inputs) ELSE 0

RECURSIVE total_args(_)
total_args(items) ==
  IF items = <<>> THEN 0 ELSE item_args(Head(items)) + total_args(Tail(items))

\* ------------------------------------------------------------------ validation

\* trait_methods: all methods in the trait, or reject if the trait contains
\* an item that is not a method, or a method whose name starts with "rpc.".
trait_methods(tr) ==
  LET methods ==
        partition([i \in 1..Len(tr.items) |->
          IF tr.items[i].item = "Method" THEN Ok(tr.items[i].sig)
          ELSE Err(Rejections_from(Rejection_create(
                 Span("item", tr.items[i].pos), "TraitNotStrictlyMethods")))])
  IN IF ~methods.ok THEN methods
     ELSE LET reserved ==
                partition([i \in 1..Len(methods.val) |->
                  IF starts_with(methods.val[i].ident, RpcDot)
                    THEN Err(Rejections_from(Rejection_create(
                           Span("ident", methods.val[i].pos), "ReservedMethodPrefix")))
                    ELSE Ok("unit")])
          IN IF ~reserved.ok THEN reserved ELSE Ok(methods.val)

\* as_jsonrpc_arg: the name and type of an argument, or its rejection.
as_jsonrpc_arg(arg) ==
  IF arg.arg # "Captured"
    THEN Err(Rejections_from(Rejection_create(Span("arg", arg.pos), "ConcreteTypesRequired")))
  ELSE IF arg.pat.pat # "Ident"
    THEN Err(Rejections_from(Rejection_create(Span("pat", arg.pos), "PatternMatchedArg")))
  ELSE IF arg.pat.by_ref = "Some"
    THEN Err(Rejections_from(Rejection_create(Span("by_ref", arg.pos), "ReferenceArg")))
  ELSE IF arg.pat.mutability = "Some"
    THEN Err(Rejections_from(Rejection_create(Span("mutability", arg.pos), "MutableArg")))
  ELSE IF arg.pat.subpat = "Some"
    THEN Err(Rejections_from(Rejection_create(Span("subpat", arg.pos), "PatternMatchedArg")))
  ELSE Ok([ident |-> arg.pat.ident, span |-> Span("ident", arg.pos), ty |-> arg.ty])

\* get_args: the name and type of each argument after the first, which must
\* be &self; the rejection of the first argument is returned at once.
get_args(method) ==
  LET inputs == method.inputs
      first ==
        IF inputs = <<>>
          THEN Err(Rejection_create(Span("inputs", method.pos), "FirstArgumentNotSelfRef"))
        ELSE IF Head(inputs).arg = "SelfRef" /\ Head(inputs).mutability = "None"
          THEN Ok("unit")
        ELSE Err(Rejection_create(Span("arg", Head(inputs).pos), "FirstArgumentNotSelfRef"))
  IN IF ~first.ok THEN Err(Rejections_from(first.err))
     ELSE LET rest == Tail(inputs)
          IN partition([i \in 1..Len(rest) |-> as_jsonrpc_arg(rest[i])])

\* ------------------------------------------------------------------ generation

is_type_str(ty) == ty.ty = "Path" /\ ty.ident = <<"s","t","r">>

\* return_type_span
return_type_span(method) ==
  IF method.decl.output.output = "Default"
    THEN Span("output", method.decl.pos)
    ELSE Span("return_type", method.decl.pos)

\* return_type: the declared return type, () when there is none.
return_type(method) ==
  IF method.decl.output.output = "Default"
    THEN [ty |-> "Tuple", elems |-> <<>>]
    ELSE method.decl.output.ty

\* add_handler: the code that parses the rpc arguments and calls the method.
add_handler(trait_name, method) ==
  LET args == get_args(method.decl)
  IN IF ~args.ok THEN args
     ELSE Ok([trait_name |-> trait_name,
              method_name |-> method.ident,
              arg_name_literals |-> [i \in 1..Len(args.val) |-> args.val[i].ident],
              parse_args |->
                [i \in 1..Len(args.val) |->
                   [argname_literal |-> format_quoted(args.val[i].ident),
                    index |-> i - 1,
                    ty |-> args.val[i].ty,
                    prefix |->
                      IF args.val[i].ty.ty = "Reference" /\ is_type_str(args.val[i].ty.elem)
                        THEN ""
                      ELSE IF args.val[i].ty.ty = "Reference" THEN "&"
                      ELSE ""]]])

\* impl_server: the Handler implementation for dyn Trait.
impl_server(tr) ==
  LET methods == trait_methods(tr)
  IN IF ~methods.ok THEN methods
     ELSE LET handlers ==
                partition([i \in 1..Len(methods.val) |->
                  LET handler == add_handler(tr.ident, methods.val[i])
                  IN IF ~handler.ok THEN handler
                     ELSE Ok([method_literal |-> methods.val[i].ident,
                              handler |-> handler.val,
                              try_serialize |-> return_type_span(methods.val[i])])])
          IN IF ~handlers.ok THEN handlers
             ELSE Ok([trait_name |-> tr.ident, handlers |-> handlers.val])

\* impl_client_method with the serialized arguments in reverse order.
impl_client_method_reversed(method) ==
  LET args == get_args(method.decl)
  IN IF ~args.ok THEN args
     ELSE Ok([method_name |-> method.ident,
              fn_definition_args |->
                [i \in 1..Len(args.val) |->
                   [arg_num_name |-> format_arg(i - 1), ty |-> args.val[i].ty]],
              return_typ |-> return_type(method),
              method_name_literal |-> method.ident,
              args_serialize |->
                [i \in 1..Len(args.val) |-> format_arg(Len(args.val) - i)]])

\* impl_client_method: the request generator of one method.
impl_client_method(method) ==
  LET args == get_args(method.decl)
  IN IF ~args.ok THEN args
     ELSE Ok([method_name |-> method.ident,
              fn_definition_args |->
                [i \in 1..Len(args.val) |->
                   [arg_num_name |-> format_arg(i - 1), ty |-> args.val[i].ty]],
              return_typ |-> return_type(method),
              method_name_literal |-> method.ident,
              args_serialize |-> [i \in 1..Len(args.val) |-> format_arg(i - 1)]])

\* impl_client: the helper enum and its request generators.
impl_client(tr) ==
  LET methods == trait_methods(tr)
  IN IF ~methods.ok THEN methods
     ELSE LET method_impls ==
                collect_result([i \in 1..Len(methods.val) |->
                                  impl_client_method(methods.val[i])])
          IN IF ~method_impls.ok THEN method_impls
             ELSE Ok([mod_name |-> to_snake_case(tr.ident),
                      method_impls |-> method_impls.val])

\* raise_if_err: the generated code if Ok, else the compile errors.
raise_if_err(res) ==
  IF res.ok THEN [code |-> <<res.val>>, errors |-> <<>>]
  ELSE [code |-> <<>>, errors |-> Rejections_raise(res.err)]

\* rpc: the macro's output for a trait definition.
rpc(item) ==
  [trait_def |-> item,
   server_impl |-> raise_if_err(impl_server(item)),
   client_impl |-> raise_if_err(impl_client(item))]

\* ------------------------------------------------------------------ values

\* serde_json::Value
JNull == [json |-> "Null", v |-> ""]
JNumber(n) == [json |-> "Number", v |-> n]
JString(str) == [json |-> "String", v |-> str]
JObject(m) == [json |-> "Object", v |-> m]

\* A Rust value of a declared type.
RustValue(ty, v) == [ty |-> ty, v |-> v]

T_unit == [ty |-> "Tuple", elems |-> <<>>]

\* The type a reference refers to, the type itself otherwise.
referent(ty) == IF ty.ty = "Reference" THEN ty.elem ELSE ty

\* The values of a type that are examined: two integers, one string, a map
\* with string keys and a map whose keys are not strings.
ValuesOf(ty) ==
  CASE referent(ty) = T_usize -> {RustValue(ty, "0"), RustValue(ty, "1")}
    [] referent(ty) = T_str -> {RustValue(ty, "x")}
    [] referent(ty) = T_Map -> {RustValue(ty, "string_keys"), RustValue(ty, "tuple_keys")}
    [] OTHER -> {RustValue(ty, "()")}

\* serde_json::to_value: a map serializes only if its keys are strings.
to_value(value) ==
  CASE referent(value.ty) = T_usize -> Ok(JNumber(value.v))
    [] referent(value.ty) = T_str -> Ok(JString(value.v))
    [] referent(value.ty) = T_Map ->
         IF value.v = "string_keys" THEN Ok(JObject(value.v))
         ELSE Err("key must be a string")
    [] OTHER -> Ok(JNull)

\* from_serde_json_value_ref: T::deserialize(value).
from_serde_json_value_ref(value, T) ==
  CASE T = T_usize /\ value.json = "Number" -> Ok(RustValue(T, value.v))
    [] T = TypeReference(T_str) /\ value.json = "String" -> Ok(RustValue(T, value.v))
    [] T = T_Map /\ value.json = "Object" -> Ok(RustValue(T, value.v))
    [] T = T_unit /\ value.json = "Null" -> Ok(RustValue(T, "()"))
    [] OTHER -> Err("invalid type")

\* Params
Positional(ar) == [style |-> "Positional", ar |-> ar]
Named(ma) == [style |-> "Named", ma |-> ma]

\* Params::get_rpc_args: the values of the expected names, in their order;
\* a missing or an extra parameter is an error.
get_rpc_args(params, names) ==
  IF params.style = "Positional"
    THEN IF Len(params.ar) = Len(names) THEN Ok(params.ar)
         ELSE Err([error |-> "InvalidParams", kind |-> "WrongNumberOfArgs"])
  ELSE IF \E i \in 1..Len(names) : names[i] \notin DOMAIN params.ma
    THEN Err([error |-> "InvalidParams", kind |-> "MissingNamedParameter"])
  ELSE IF \E key \in DOMAIN params.ma : \A i \in 1..Len(names) : names[i] # key
    THEN Err([error |-> "InvalidParams", kind |-> "ExtraNamedParameter"])
  ELSE Ok([i \in 1..Len(names) |-> params.ma[names[i]]])

\* easy_jsonrpc::try_serialize: the result as a Value, or the error of a
\* result that does not serialize.
try_serialize(result) ==
  LET value == to_value(result)
  IN IF value.ok THEN value
     ELSE Err([error |-> "ResultSerializationFailure"])

\* ------------------------------------------------------------------ generated Handler

\* ordered_args.next() that leaves the value in place.
drain_peek(ordered_args) ==
  [item |-> IF ordered_args = <<>> THEN <<>> ELSE <<Head(ordered_args)>>,
   rest |-> ordered_args]

\* ordered_args.next(): the next value of the drained vector, if any.
drain_next(ordered_args) ==
  [item |-> IF ordered_args = <<>> THEN <<>> ELSE <<Head(ordered_args)>>,
   rest |-> IF ordered_args = <<>> THEN <<>> ELSE Tail(ordered_args)]

\* The type the block of one parse_args expression deserializes into: the
\* declared type, or what it refers to when the block is prefixed by &.
deserialize_target(parse_arg) ==
  IF parse_arg.prefix = "&" THEN parse_arg.ty.elem ELSE parse_arg.ty

\* The value the expression passes to the method.
apply_prefix(parse_arg, value) ==
  IF parse_arg.prefix = "&" THEN RustValue(TypeReference(value.ty), value.v) ELSE value

\* The argument expressions i, i+1, ... of the call, evaluated left to
\* right; the first failure returns from handle.
RECURSIVE parse_args_from(_, _, _)
parse_args_from(parse_args, ordered_args, i) ==
  IF i > Len(parse_args)
    THEN [status |-> "ok", values |-> <<>>, rest |-> ordered_args,
          trace |-> <<>>, error |-> <<>>]
  ELSE LET taken == drain_next(ordered_args)
           parse_arg == parse_args[i]
       IN IF taken.item = <<>>
            THEN [status |-> "panic", values |-> <<>>, rest |-> taken.rest,
                  trace |-> <<[ev |-> "expect", index |-> parse_arg.index, ok |-> FALSE]>>,
                  error |-> <<[error |-> "panic",
                               message |-> "RPC method Got too few args. This is a bug."]>>]
          ELSE LET value == from_serde_json_value_ref(taken.item[1],
                                                      deserialize_target(parse_arg))
               IN IF ~value.ok
                    THEN [status |-> "err", values |-> <<>>, rest |-> taken.rest,
                          trace |-> <<[ev |-> "deserialize", index |-> parse_arg.index,
                                       ok |-> FALSE]>>,
                          error |-> <<[error |-> "InvalidArgStructure",
                                       name |-> parse_arg.argname_literal,
                                       index |-> parse_arg.index]>>]
                  ELSE LET more == parse_args_from(parse_args, taken.rest, i + 1)
                       IN [more EXCEPT
                             !.values = <<apply_prefix(parse_arg, value.val)>> \o @,
                             !.trace = <<[ev |-> "deserialize", index |-> parse_arg.index,
                                          ok |-> TRUE]>> \o @]

\* The block after get_rpc_args: the call of the method with the parsed
\* arguments, then the debug_assert that none is left.
call_method(handler, args, ret) ==
  LET parsed == parse_args_from(handler.parse_args, args, 1)
  IN IF parsed.status # "ok"
       THEN [res |-> Err(parsed.error[1]), trace |-> parsed.trace]
     ELSE LET called == <<[ev |-> "call", method |-> handler.method_name,
                           args |-> parsed.values]>>
              left == drain_next(parsed.rest).item
              asserted == <<[ev |-> "debug_assert", left |-> left]>>
          IN [res |-> IF left = <<>> THEN Ok(ret)
                      \* a debug build panics here
                      ELSE Err([error |-> "panic", message |-> "assertion failed"]),
              trace |-> parsed.trace \o called \o asserted]

\* run_handler with the error of get_rpc_args dropped (unwrap_or_default).
run_handler_unchecked(handler, params, ret) ==
  LET requested == <<[ev |-> "get_rpc_args", names |-> handler.arg_name_literals]>>
      args == get_rpc_args(params, handler.arg_name_literals)
      run == call_method(handler, IF args.ok THEN args.val ELSE <<>>, ret)
  IN [res |-> run.res, trace |-> requested \o run.trace]

\* The block add_handler generates, run on params; ret is what the
\* implementation of the method returns when it is called.
run_handler(handler, params, ret) ==
  LET requested == <<[ev |-> "get_rpc_args", names |-> handler.arg_name_literals]>>
      args == get_rpc_args(params, handler.arg_name_literals)
  IN IF ~args.ok THEN [res |-> args, trace |-> requested]
     ELSE LET run == call_method(handler, args.val, ret)
          IN [res |-> run.res, trace |-> requested \o run.trace]

\* match_arm with the last arm taken when no literal is the method.
match_arm_fallback(handlers, method) ==
  IF \E i \in 1..Len(handlers) : handlers[i].method_literal = method
    THEN CHOOSE i \in 1..Len(handlers) :
           /\ handlers[i].method_literal = method
           /\ \A j \in 1..(i - 1) : handlers[j].method_literal # method
    ELSE Len(handlers)

\* The index of the first arm of the match whose literal is method, 0 if none.
match_arm(handlers, method) ==
  IF \E i \in 1..Len(handlers) : handlers[i].method_literal = method
    THEN CHOOSE i \in 1..Len(handlers) :
           /\ handlers[i].method_literal = method
           /\ \A j \in 1..(i - 1) : handlers[j].method_literal # method
    ELSE 0

\* Handler::handle as impl_server generates it.
handle(server, method, params, ret) ==
  LET arm == match_arm(server.handlers, method)
  IN IF arm = 0
       THEN [result |-> Err([error |-> "MethodNotFound"]), trace |-> <<>>]
     ELSE LET run == run_handler(server.handlers[arm].handler, params, ret)
          IN [result |-> IF run.res.ok THEN try_serialize(run.res.val) ELSE run.res,
              trace |-> run.trace]

\* ------------------------------------------------------------------ generated client

\* BoundMethod::new
BoundMethod(method, args) == [method |-> method, args |-> args]

\* The value bound to a parameter of the request generator.
arg_value(stub, vals, arg_num_name) ==
  vals[CHOOSE k \in 1..Len(stub.fn_definition_args) :
         stub.fn_definition_args[k].arg_num_name = arg_num_name]

\* The elements i, i+1, ... of the vec![..] of serialized arguments, left to
\* right; the first failure returns ArgSerializeError.
RECURSIVE args_serialize_from(_, _, _)
args_serialize_from(stub, vals, i) ==
  IF i > Len(stub.args_serialize) THEN [ok |-> TRUE, values |-> <<>>, trace |-> <<>>]
  ELSE LET value == to_value(arg_value(stub, vals, stub.args_serialize[i]))
           ev == [ev |-> "to_value", arg |-> stub.args_serialize[i], ok |-> value.ok]
       IN IF ~value.ok THEN [ok |-> FALSE, values |-> <<>>, trace |-> <<ev>>]
          ELSE LET more == args_serialize_from(stub, vals, i + 1)
               IN [more EXCEPT !.values = <<value.val>> \o @, !.trace = <<ev>> \o @]

\* bound_call that returns the request of the arguments serialized so far
\* when one fails.
bound_call_partial(stub, vals) ==
  LET args == args_serialize_from(stub, vals, 1)
  IN [result |-> Ok(BoundMethod(stub.method_name_literal, args.values)),
      trace |-> args.trace]

\* The request generator impl_client_method generates, called with vals.
bound_call(stub, vals) ==
  LET args == args_serialize_from(stub, vals, 1)
  IN [result |-> IF args.ok THEN Ok(BoundMethod(stub.method_name_literal, args.values))
                 ELSE Err("ArgSerializeError"),
      trace |-> args.trace]

\* ------------------------------------------------------------------ callers

\* The values in a request's params.
JsonValues == {JNumber("0"), JString("x"), JObject("string_keys")}

\* The keys of by-name params: the argument names and one more.
NamedKeys == {ParamIdent(j) : j \in 2..(MaxParams + 1)} \cup {<<"z">>}

ParamsSet ==
  {Positional(ar) : ar \in UNION {[1..n -> JsonValues] : n \in 0..(MaxParams + 1)}}
  \cup {Named(ma) : ma \in UNION {[K -> JsonValues] : K \in SUBSET NamedKeys}}

\* The method names of requests.
MethodStrings ==
  {<<MethodLetters[m]>> : m \in 1..MaxMembers}
  \cup {RpcDot \o <<MethodLetters[1]>>, <<"x">>}

AllValues == UNION {ValuesOf(ty) : ty \in ArgTypes}

\* The argument lists a request generator accepts: values of the declared types.
StubInputs(stub) ==
  {vals \in [1..Len(stub.fn_definition_args) -> AllValues] :
     \A k \in 1..Len(stub.fn_definition_args) :
       vals[k] \in ValuesOf(stub.fn_definition_args[k].ty)}

\* What the implementation of the trait may return from the method.
ImplReturns(tr, method) ==
  LET found == {i \in 1..Len(tr.items) :
                  tr.items[i].item = "Method" /\ tr.items[i].sig.ident = method}
  IN IF found = {} THEN ValuesOf(T_unit)
     ELSE ValuesOf(return_type(tr.items[CHOOSE i \in found : \A j \in found : i <= j].sig))

\* ------------------------------------------------------------------ state machine

NoCall == [op |-> "none"]

Init ==
  /\ trait_def = [ident |-> TraitName, items |-> <<>>]
  /\ output = <<>>
  /\ last = NoCall

\* parse_macro_input!(item as ItemTrait) reads one more item of the trait.
ParseItem ==
  /\ output = <<>>
  /\ Len(trait_def.items) < MaxMembers
  /\ \E it \in Items(Len(trait_def.items) + 1,
                      MaxTotalArgs - total_args(trait_def.items)) :
       trait_def' = [trait_def EXCEPT !.items = Append(@, it)]
  /\ UNCHANGED <<output, last>>

\* The compiler expands #[rpc] on the trait.
Rpc ==
  /\ output = <<>>
  /\ output' = <<rpc(trait_def)>>
  /\ UNCHANGED <<trait_def, last>>

\* A request reaches the generated Handler.
Handle ==
  /\ output # <<>>
  /\ last = NoCall
  /\ output[1].server_impl.code # <<>>
  /\ \E method \in MethodStrings, params \in ParamsSet :
       \E ret \in ImplReturns(trait_def, method) :
         last' = [op |-> "handle", method |-> method, params |-> params,
                  run |-> handle(output[1].server_impl.code[1], method, params, ret)]
  /\ UNCHANGED <<trait_def, output>>

\* A client calls a generated request generator.
BuildCall ==
  /\ output # <<>>
  /\ last = NoCall
  /\ output[1].client_impl.code # <<>>
  /\ \E i \in 1..Len(output[1].client_impl.code[1].method_impls) :
       LET stub == output[1].client_impl.code[1].method_impls[i]
       IN \E vals \in StubInputs(stub) :
            last' = [op |-> "build_call", stub |-> i, vals |-> vals,
                     run |-> bound_call(stub, vals)]
  /\ UNCHANGED <<trait_def, output>>

\* A client builds a request and its method and args reach the Handler as
\* positional params.
RoundTrip ==
  /\ output # <<>>
  /\ last = NoCall
  /\ output[1].client_impl.code # <<>>
  /\ output[1].server_impl.code # <<>>
  /\ \E i \in 1..Len(output[1].client_impl.code[1].method_impls) :
       LET stub == output[1].client_impl.code[1].method_impls[i]
       IN \E vals \in StubInputs(stub) :
            LET built == bound_call(stub, vals)
            IN /\ built.result.ok
               /\ \E ret \in ImplReturns(trait_def, built.result.val.method) :
                    last' = [op |-> "round_trip", stub |-> i, vals |-> vals,
                             built |-> built,
                             run |-> handle(output[1].server_impl.code[1],
                                            built.result.val.method,
                                            Positional(built.result.val.args), ret)]
  /\ UNCHANGED <<trait_def, output>>

\* The caller takes the result; the generated code keeps nothing of a call.
Return ==
  /\ last # NoCall
  /\ last' = NoCall
  /\ UNCHANGED <<trait_def, output>>

Next == ParseItem \/ Rpc \/ Handle \/ BuildCall \/ RoundTrip \/ Return

Spec == Init /\ [][Next]_vars

\* ------------------------------------------------------------------ what the properties speak of

Expanded == output # <<>>
ServerGenerated == Expanded /\ output[1].server_impl.code # <<>>
ClientGenerated == Expanded /\ output[1].client_impl.code # <<>>

\* The checks of the trait's items, stated on the syntax alone.
IsMethod(it) == it.item = "Method"
ReservedName(it) == IsMethod(it) /\ starts_with(it.sig.ident, RpcDot)
BadReceiver(it) ==
  /\ IsMethod(it)
  /\ \/ it.sig.decl.inputs = <<>>
     \/ Head(it.sig.decl.inputs).arg # "SelfRef"
     \/ Head(it.sig.decl.inputs).mutability # "None"
BadParam(arg) ==
  \/ arg.arg # "Captured"
  \/ arg.pat.pat # "Ident"
  \/ arg.pat.by_ref = "Some"
  \/ arg.pat.mutability = "Some"
  \/ arg.pat.subpat = "Some"
DeclaredParams(it) ==
  IF IsMethod(it) /\ it.sig.decl.inputs # <<>> THEN Tail(it.sig.decl.inputs) ELSE <<>>
BadParams(it) == SelectSeq(DeclaredParams(it), BadParam)

\* The number of violations of an item: one if it is no method, else one
\* for a reserved name, one for the receiver and one per invalid parameter.
Violations(it) ==
  IF ~IsMethod(it) THEN 1
  ELSE (IF ReservedName(it) THEN 1 ELSE 0) + (IF BadReceiver(it) THEN 1 ELSE 0)
         + Len(BadParams(it))

Items_ == trait_def.items
ViolatingItems == {i \in 1..Len(Items_) : Violations(Items_[i]) > 0}

DeclaredNames(it) ==
  [k \in 1..Len(DeclaredParams(it)) |-> DeclaredParams(it)[k].pat.ident]
DeclaredTypes(it) ==
  [k \in 1..Len(DeclaredParams(it)) |-> DeclaredParams(it)[k].ty]

Known(method) == \E i \in 1..Len(Items_) : IsMethod(Items_[i]) /\ Items_[i].sig.ident = method
ItemOf(method) ==
  Items_[CHOOSE i \in 1..Len(Items_) : IsMethod(Items_[i]) /\ Items_[i].sig.ident = method]

Dispatched == last.op \in {"handle", "round_trip"}
DispatchedMethod == IF last.op = "handle" THEN last.method ELSE last.built.result.val.method
DispatchedParams ==
  IF last.op = "handle" THEN last.params ELSE Positional(last.built.result.val.args)

Calls(trace) == SelectSeq(trace, LAMBDA e : e.ev = "call")
Deserialized(trace) == SelectSeq(trace, LAMBDA e : e.ev = "deserialize")
Expects(trace) == SelectSeq(trace, LAMBDA e : e.ev = "expect")
Asserts(trace) == SelectSeq(trace, LAMBDA e : e.ev = "debug_assert")

\* The params have the count or the names the method declares.
RightShape(params, names) ==
  IF params.style = "Positional" THEN Len(params.ar) = Len(names)
  ELSE DOMAIN params.ma = {names[k] : k \in 1..Len(names)}

\* The raw values the params hold for the names, in their order.
RawValues(params, names) ==
  IF params.style = "Positional" THEN params.ar
  ELSE [k \in 1..Len(names) |-> params.ma[names[k]]]

\* A raw value has the JSON kind of the declared type.
Deserializes(value, ty) ==
  \/ referent(ty) = T_usize /\ value.json = "Number"
  \/ referent(ty) = T_str /\ value.json = "String"
  \/ referent(ty) = T_Map /\ value.json = "Object"

\* ------------------------------------------------------------------ C1

\* C1: once the macro has run on a trait in which any item or parameter
\* violates a check, its output holds neither the Handler implementation nor
\* any request generator, only compile errors in the place of each.
C1_AllOrNothing ==
  (Expanded /\ ViolatingItems # {}) =>
    /\ output[1].server_impl.code = <<>>
    /\ output[1].client_impl.code = <<>>
    /\ output[1].server_impl.errors # <<>>
    /\ output[1].client_impl.errors # <<>>

\* A trait with one valid method and one invalid one has been expanded.
C1_Witness ==
  /\ Expanded
  /\ ViolatingItems # {}
  /\ \E i \in 1..Len(Items_) : Violations(Items_[i]) = 0
  /\ output[1].server_impl.code = <<>>

\* ------------------------------------------------------------------ C2

\* C2 as stated, for a trait whose method names are not reserved: k >= 1
\* violations, each in an item of its own, make one run of rpc report
\* exactly k diagnostics, a diagnostic that both generators raise being
\* counted once.
C2_ExactlyK ==
  (/\ Expanded
   /\ ViolatingItems # {}
   /\ \A i \in 1..Len(Items_) : ~ReservedName(Items_[i])
   /\ \A i \in ViolatingItems : Violations(Items_[i]) = 1) =>
    Cardinality({output[1].server_impl.errors[n] : n \in 1..Len(output[1].server_impl.errors)}
                \cup
                {output[1].client_impl.errors[n] : n \in 1..Len(output[1].client_impl.errors)})
      = Cardinality(ViolatingItems)

\* ------------------------------------------------------------------ C3

\* Where the claim puts the violations of a method: the receiver's first,
\* then those of the invalid parameters, left to right.
ExpectedPositions(it) ==
  (IF BadReceiver(it)
     THEN IF it.sig.decl.inputs = <<>> THEN <<it.sig.decl.pos>>
          ELSE <<Head(it.sig.decl.inputs).pos>>
     ELSE <<>>)
  \o [k \in 1..Len(BadParams(it)) |-> BadParams(it)[k].pos]

RECURSIVE ExpectedAll(_)
ExpectedAll(items) ==
  IF items = <<>> THEN <<>>
  ELSE ExpectedPositions(Head(items)) \o ExpectedAll(Tail(items))

\* C3 as stated, for a trait of methods with unreserved names: impl_server
\* reports, item by item, the violation of an invalid receiver and then one
\* violation per invalid parameter left to right, so that a method with an
\* invalid receiver and j invalid parameters contributes 1 + j violations.
C3_NoShortCircuit ==
  (/\ Expanded
   /\ \A i \in 1..Len(Items_) : IsMethod(Items_[i]) /\ ~ReservedName(Items_[i])) =>
    [n \in 1..Len(output[1].server_impl.errors) |-> output[1].server_impl.errors[n].span.pos]
      = ExpectedAll(Items_)

\* ------------------------------------------------------------------ C4

\* C4: handle called with a method name that is the name of no method of
\* the trait returns MethodNotFound whatever the params, having asked the
\* params for no arguments and called no method of the implementation.
C4_UnknownMethod ==
  (last.op = "handle" /\ ~Known(last.method)) =>
    /\ last.run.result = Err([error |-> "MethodNotFound"])
    /\ last.run.trace = <<>>

\* An unknown name has been dispatched, with params that hold a value, to a
\* Handler that has a method.
C4_Witness ==
  /\ last.op = "handle"
  /\ ~Known(last.method)
  /\ Len(Items_) >= 1
  /\ last.params.style = "Positional"
  /\ Len(last.params.ar) >= 1

\* ------------------------------------------------------------------ C5

\* C5: in a dispatch of a known method the implementation is called at most
\* once, and only after get_rpc_args was asked for the declared names and
\* every argument was deserialized; params of the wrong count or names
\* return InvalidParams, and then, as after a failed deserialization, the
\* implementation is not called.
C5_NoPartialInvocation ==
  (Dispatched /\ Known(DispatchedMethod)) =>
    LET it == ItemOf(DispatchedMethod)
        names == DeclaredNames(it)
        trace == last.run.trace
        des == Deserialized(trace)
    IN /\ Len(Calls(trace)) <= 1
       /\ Len(Calls(trace)) = 1 =>
            /\ RightShape(DispatchedParams, names)
            /\ trace[1] = [ev |-> "get_rpc_args", names |-> names]
            /\ Len(trace) = Len(names) + 3
            /\ \A k \in 1..Len(names) :
                 trace[k + 1] = [ev |-> "deserialize", index |-> k - 1, ok |-> TRUE]
            /\ trace[Len(names) + 2].ev = "call"
       /\ ~RightShape(DispatchedParams, names) =>
            /\ ~last.run.result.ok
            /\ last.run.result.err.error = "InvalidParams"
            /\ Calls(trace) = <<>>
       /\ (\E k \in 1..Len(des) : ~des[k].ok) => Calls(trace) = <<>>

\* A known method with two parameters was dispatched with a first argument
\* that deserializes and a second that does not.
C5_Witness ==
  /\ Dispatched
  /\ Known(DispatchedMethod)
  /\ Len(DeclaredNames(ItemOf(DispatchedMethod))) = 2
  /\ Deserialized(last.run.trace)
       = <<[ev |-> "deserialize", index |-> 0, ok |-> TRUE],
           [ev |-> "deserialize", index |-> 1, ok |-> FALSE]>>

\* ------------------------------------------------------------------ C6

\* C6 as stated: when the arguments of a known method were extracted and i
\* is the first position whose value does not deserialize into the declared
\* type, the values before i and the one at i are deserialized in order,
\* none after it, and handle returns InvalidArgStructure with index i and
\* the declared name of parameter i as its name.
C6_FirstFailure ==
  (/\ last.op = "handle"
   /\ Known(last.method)
   /\ RightShape(last.params, DeclaredNames(ItemOf(last.method)))
   /\ \E k \in 1..Len(DeclaredNames(ItemOf(last.method))) :
        ~Deserializes(RawValues(last.params, DeclaredNames(ItemOf(last.method)))[k],
                      DeclaredTypes(ItemOf(last.method))[k])) =>
    LET it == ItemOf(last.method)
        names == DeclaredNames(it)
        raw == RawValues(last.params, names)
        bad == {k \in 1..Len(names) : ~Deserializes(raw[k], DeclaredTypes(it)[k])}
        i == CHOOSE k \in bad : \A j \in bad : k <= j
    IN /\ Deserialized(last.run.trace)
            = [k \in 1..i |-> [ev |-> "deserialize", index |-> k - 1, ok |-> k < i]]
       /\ last.run.result
            = Err([error |-> "InvalidArgStructure", name |-> names[i], index |-> i - 1])

\* ------------------------------------------------------------------ C7

C8_BoundCall ==
  last.op = "build_call" =>
    LET it == Items_[last.stub]
        n == Len(DeclaredParams(it))
        fails == {k \in 1..n : ~to_value(last.vals[k]).ok}
        upto == IF fails = {} THEN n ELSE CHOOSE k \in fails : \A j \in fails : k <= j
    IN /\ Len(last.vals) = n
       /\ \A k \in 1..n : last.vals[k].ty = DeclaredTypes(it)[k]
       /\ last.run.trace
            = [k \in 1..upto |-> [ev |-> "to_value", arg |-> format_arg(k - 1),
                                  ok |-> k \notin fails]]
       /\ fails # {} => last.run.result = Err("ArgSerializeError")
       /\ fails = {} =>
            last.run.result
              = Ok([method |-> it.sig.ident,
                    args |-> [k \in 1..n |-> to_value(last.vals[k]).val]])

\* A generator with two parameters was called with a first value that
\* serializes and a second that does not.
C8_Witness ==
  /\ last.op = "build_call"
  /\ Len(last.vals) = 2
  /\ to_value(last.vals[1]).ok
  /\ ~to_value(last.vals[2]).ok
  /\ ~last.run.result.ok

\* ------------------------------------------------------------------ C9

\* C9: in a dispatch of a known method whose params give one value per
\* declared parameter, the expectation of a next value never fails, the
\* k-th declared parameter is deserialized from the k-th extracted value,
\* and once the implementation was called no value is left at the
\* debug_assert; a method without parameters asks for the empty name list
\* and takes no value.
C9_OnePerParameter ==
  (/\ Dispatched
   /\ Known(DispatchedMethod)
   /\ RightShape(DispatchedParams, DeclaredNames(ItemOf(DispatchedMethod)))) =>
    LET it == ItemOf(DispatchedMethod)
        names == DeclaredNames(it)
        raw == RawValues(DispatchedParams, names)
        trace == last.run.trace
        des == Deserialized(trace)
    IN /\ Expects(trace) = <<>>
       /\ Len(des) <= Len(names)
       /\ \A k \in 1..Len(des) :
            /\ des[k].index = k - 1
            /\ des[k].ok = Deserializes(raw[k], DeclaredTypes(it)[k])
       /\ Calls(trace) # <<>> =>
            /\ Len(des) = Len(names)
            /\ \A k \in 1..Len(names) : Calls(trace)[1].args[k].v = raw[k].v
            /\ Asserts(trace) = <<[ev |-> "debug_assert", left |-> <<>>]>>
       /\ names = <<>> =>
            /\ trace[1] = [ev |-> "get_rpc_args", names |-> <<>>]
            /\ des = <<>>
            /\ Len(Calls(trace)) = 1

\* A method with two parameters of different types was called by a request
\* that gave both, by name.
C9_Witness ==
  /\ last.op = "handle"
  /\ Known(last.method)
  /\ last.params.style = "Named"
  /\ Len(Calls(last.run.trace)) = 1
  /\ Len(Calls(last.run.trace)[1].args) = 2
  /\ Calls(last.run.trace)[1].args[1].ty # Calls(last.run.trace)[1].args[2].ty

\* ------------------------------------------------------------------ C10

\* What the two generators agree on whatever the names of the generator's
\* own parameters: both or neither is generated, and when both are, each
\* item has its arm and its generator, in order, with the declared method
\* name.
AgreeOnMethods ==
  /\ ServerGenerated <=> ClientGenerated
  /\ (ServerGenerated /\ ClientGenerated) =>
       LET handlers == output[1].server_impl.code[1].handlers
           stubs == output[1].client_impl.code[1].method_impls
       IN /\ Len(handlers) = Len(Items_)
          /\ Len(stubs) = Len(Items_)
          /\ \A i \in 1..Len(Items_) :
               /\ handlers[i].method_literal = Items_[i].sig.ident
               /\ stubs[i].method_name_literal = Items_[i].sig.ident
               /\ handlers[i].handler.arg_name_literals = DeclaredNames(Items_[i])

\* C10 as stated: the generators agree, and the parameters of each
\* request generator have the names the arm of its method expects, in the
\* same order.
C10_SameNames ==
  Expanded =>
    /\ AgreeOnMethods
    /\ (ServerGenerated /\ ClientGenerated) =>
         \A i \in 1..Len(Items_) :
           [k \in 1..Len(output[1].client_impl.code[1].method_impls[i].fn_definition_args) |->
              output[1].client_impl.code[1].method_impls[i].fn_definition_args[k].arg_num_name]
             = output[1].server_impl.code[1].handlers[i].handler.arg_name_literals

\* C10 amended: the generators agree, and each request generator has one
\* parameter per name its arm expects, of the declared type and in the same
\* order, named arg0, arg1, ... by position and not by the declared name.
C10_SameParameters ==
  Expanded =>
    /\ AgreeOnMethods
    /\ (ServerGenerated /\ ClientGenerated) =>
         \A i \in 1..Len(Items_) :
           LET fn_args == output[1].client_impl.code[1].method_impls[i].fn_definition_args
               parse_args == output[1].server_impl.code[1].handlers[i].handler.parse_args
           IN /\ Len(fn_args) = Len(DeclaredNames(Items_[i]))
              /\ Len(parse_args) = Len(fn_args)
              /\ \A k \in 1..Len(fn_args) :
                   /\ fn_args[k].ty = DeclaredTypes(Items_[i])[k]
                   /\ parse_args[k].ty = fn_args[k].ty
                   /\ fn_args[k].arg_num_name = format_arg(k - 1)

\* Both were generated for a trait of two methods, one of them with a
\* parameter.
C10_Witness ==
  /\ ServerGenerated
  /\ ClientGenerated
  /\ Len(Items_) = 2
  /\ \E i \in 1..2 : Len(DeclaredParams(Items_[i])) >= 1

====
